---- MODULE Spec2Model ----
(***************************************************************************)
(* Sock/match lifecycle of the sock-graveyard backend                      *)
(* (backend/app/routers/singles.py, backend/app/routers/matches.py,        *)
(* backend/app/models.py).                                                 *)
(*                                                                         *)
(* The database holds the committed rows of the tables socks and matches.  *)
(* Every request owns a private SQLAlchemy session: what it reads is a     *)
(* snapshot taken at its query, what it writes reaches the database in one *)
(* transaction at db.commit().  Handlers declared with def run on worker   *)
(* threads, so the steps of two requests interleave; one step of the model *)
(* is one stretch of a handler between two accesses to shared state (the   *)
(* database or the upload directory).                                      *)
(*                                                                         *)
(* Not modelled: failures of the operating system (os.remove raising, a    *)
(* full disk); a failing db.commit() is modelled for upload_sock only.     *)
(*                                                                         *)
(* Spec runs the handlers on a migrated database, SpecFresh the upload and *)
(* delete handlers on an empty one, SpecLibrary single calls of            *)
(* db_utils.find_similar_socks and of the services' calculate_similarity.  *)
(* SpecFeatures runs single calls of extract_color_palette and of         *)
(* extract_features, SpecService the threads of get_embedding_service,     *)
(* SpecAuth the register handler on a database without users, SpecLegacy   *)
(* confirm_match and delete_sock of routers/socks.py.                      *)
(***************************************************************************)
EXTENDS Integers, Sequences, FiniteSets, TLC

\* ---------------------------------------------------------------- bounds
Users == {"alice", "bob"}
Slots == {"r1", "r2"}
MaxUploads == 1
Embeddings == {1, 2}
Palettes == {"null", "pal"}

\* ----------------------------------------------------------------- paths
\* uuid4 file names are fresh; a name is identified by the upload it
\* belongs to.
NoPath == <<"none", 0>>
ImgPath(k) == <<"img", k>>
NoBgPath(p) == <<"nobg", p[2]>>

\* ret: what the latest direct call of a library function returned (the
\* handlers above the line of the routers never set it).
\* embedding_service: the module global _embedding_service of
\* app/embedding.py.
\* calls: where each thread stands in get_embedding_service.
\* users: the users table.
\* legacy: the socks table as routers/socks.py uses it (matched_with_id).
VARIABLES socks, matches, files, req, tasks, uploads, ret,
          embedding_service, calls, users, legacy

vars == <<socks, matches, files, req, tasks, uploads, ret,
          embedding_service, calls, users, legacy>>

\* -------------------------------------------------------------- database
MaxOf(S) == CHOOSE x \in S : \A y \in S : y <= x

\* Integer primary key: the next row id is one more than the largest id
\* in the table (sqlite rowid, the configured default database).
NextId(table) == IF DOMAIN table = {} THEN 1 ELSE MaxOf(DOMAIN table) + 1

Without(table, id) == [i \in DOMAIN table \ {id} |-> table[i]]

DB == [socks |-> socks, matches |-> matches]

\* Match.user_id and Match.user_sequence_id are nullable=False and have no
\* default: a row that leaves them unset violates NOT NULL.
NotNullOK_off(row) == TRUE

NotNullOK(row) == row.user_id # "null" /\ row.user_sequence_id # 0

\* A flush whose background-removal UPDATE also rewrites the embedding.
ExecStmt_reembed(db, s) ==
    CASE s.t = "upd_matched" ->
           IF s.id \in DOMAIN db.socks
           THEN [db |-> [db EXCEPT !.socks[s.id].is_matched = s.val], err |-> "ok"]
           ELSE [db |-> db, err |-> "stale"]
      [] s.t = "upd_bg" ->
           IF s.id \in DOMAIN db.socks
           THEN [db |-> [db EXCEPT !.socks[s.id].image_no_bg_path = s.path,
                                   !.socks[s.id].color_palette = s.pal,
                                   !.socks[s.id].embedding =
                                       (db.socks[s.id].embedding % 2) + 1],
                 err |-> "ok"]
           ELSE [db |-> db, err |-> "stale"]
      [] s.t = "ins_match" ->
           IF NotNullOK(s.row)
           THEN [db |-> [db EXCEPT !.matches =
                            db.matches @@ (NextId(db.matches) :> s.row)],
                 err |-> "ok"]
           ELSE [db |-> db, err |-> "integrity"]
      [] s.t = "ins_sock" ->
           [db |-> [db EXCEPT !.socks = db.socks @@ (NextId(db.socks) :> s.row)],
            err |-> "ok"]
      [] s.t = "del_match" ->
           [db |-> [db EXCEPT !.matches = Without(db.matches, s.id)], err |-> "ok"]
      [] s.t = "del_sock" ->
           [db |-> [db EXCEPT !.socks = Without(db.socks, s.id)], err |-> "ok"]

\* One SQL statement of a flush.  UPDATE of a row that is gone makes
\* SQLAlchemy raise StaleDataError; DELETE of a row that is gone only
\* warns; INSERT checks the NOT NULL columns.
ExecStmt(db, s) ==
    CASE s.t = "upd_matched" ->
           IF s.id \in DOMAIN db.socks
           THEN [db |-> [db EXCEPT !.socks[s.id].is_matched = s.val], err |-> "ok"]
           ELSE [db |-> db, err |-> "stale"]
      [] s.t = "upd_bg" ->
           IF s.id \in DOMAIN db.socks
           THEN [db |-> [db EXCEPT !.socks[s.id].image_no_bg_path = s.path,
                                   !.socks[s.id].color_palette = s.pal],
                 err |-> "ok"]
           ELSE [db |-> db, err |-> "stale"]
      [] s.t = "ins_match" ->
           IF NotNullOK(s.row)
           THEN [db |-> [db EXCEPT !.matches =
                            db.matches @@ (NextId(db.matches) :> s.row)],
                 err |-> "ok"]
           ELSE [db |-> db, err |-> "integrity"]
      [] s.t = "ins_sock" ->
           [db |-> [db EXCEPT !.socks = db.socks @@ (NextId(db.socks) :> s.row)],
            err |-> "ok"]
      [] s.t = "del_match" ->
           [db |-> [db EXCEPT !.matches = Without(db.matches, s.id)], err |-> "ok"]
      [] s.t = "del_sock" ->
           [db |-> [db EXCEPT !.socks = Without(db.socks, s.id)], err |-> "ok"]

RECURSIVE RunTx(_, _)
RunTx(db, stmts) ==
    IF stmts = <<>> THEN [db |-> db, err |-> "ok"]
    ELSE LET r == ExecStmt(db, Head(stmts))
         IN IF r.err # "ok" THEN r ELSE RunTx(r.db, Tail(stmts))

\* A commit that keeps the statements executed before the failing one.
Commit_norollback(db, stmts) == RunTx(db, stmts)

\* db.commit(): the pending statements are one transaction; an error rolls
\* all of them back.
Commit(db, stmts) ==
    LET r == RunTx(db, stmts)
    IN IF r.err = "ok" THEN r ELSE [db |-> db, err |-> r.err]

\* -------------------------------------------------------------- requests
\* A request slot: the handler it runs, where that handler stands, and the
\* handler's local variables (tx: the statements its session will flush at
\* commit; rm: the paths it is about to remove).
Idle ==
    [op |-> "none", pc |-> "idle", user |-> "null", m |-> 0, a |-> 0, b |-> 0,
     dec |-> FALSE, k |-> 0, seq |-> 0, tx |-> <<>>, rm |-> {}]

Free(r) == req[r].pc = "idle"

\* The handler returns, or raises: the request is over and the worker is
\* free again.
Reply(r) == req' = [req EXCEPT ![r] = Idle]

\* The handler moves on with new local state.
Goto(r, rec) == req' = [req EXCEPT ![r] = rec]

\* No library function has been called directly.
NoRet == [fn |-> "none"]

\* The threads of the worker pool that run get_embedding_service.
MaxCallers == 3
Callers == 1 .. MaxCallers

\* A thread outside get_embedding_service that has not been given a
\* service yet; obj is the EmbeddingService it constructed, got the one it
\* was returned (0: none; an object is named after the thread that
\* constructed it).
NoCall == [pc |-> "out", obj |-> 0, got |-> 0]

\* The registered users: a row per id, holding the email.
InitUsers == (1 :> [email |-> "alice"]) @@ (2 :> [email |-> "bob"])

\* What the handlers of singles.py and matches.py never change: no
\* service created yet, both users registered, no row written by
\* routers/socks.py.
InitRest ==
    /\ embedding_service = 0
    /\ calls = [t \in Callers |-> NoCall]
    /\ users = InitUsers
    /\ legacy = << >>

\* --------------------------------------------------------- initial state
\* A database that went through migration 005: it holds one match of
\* alice, made before the matches table had user_id and user_sequence_id,
\* which the migration filled in.  Sock 1 was processed by its background
\* task, sock 2 was not.
InitSocks ==
    (1 :> [owner |-> "alice", seq |-> 1, image_path |-> ImgPath(1),
           image_no_bg_path |-> NoBgPath(ImgPath(1)), color_palette |-> "pal",
           embedding |-> 1, is_matched |-> TRUE])
    @@
    (2 :> [owner |-> "alice", seq |-> 2, image_path |-> ImgPath(2),
           image_no_bg_path |-> NoPath, color_palette |-> "null",
           embedding |-> 2, is_matched |-> TRUE])

InitMatches ==
    (1 :> [user_id |-> "alice", user_sequence_id |-> 1,
           sock1_id |-> 1, sock2_id |-> 2])

Init ==
    /\ socks = InitSocks
    /\ matches = InitMatches
    /\ files = {ImgPath(1), ImgPath(2), NoBgPath(ImgPath(1))}
    /\ req = [r \in Slots |-> Idle]
    /\ tasks = {}
    /\ uploads = Cardinality(DOMAIN InitSocks)
    /\ ret = NoRet
    /\ InitRest

\* The ids a request may name: those a row can have, and one more that
\* no row has.
SockIds == 1 .. (Cardinality(DOMAIN InitSocks) + MaxUploads + 1)
MatchIds == 1 .. (Cardinality(DOMAIN InitMatches) + 1)

\* ---------------------------------------------------------- create_match
\* The new Match row as create_match builds it: only the two sock ids.
NewMatch(a, b) ==
    [user_id |-> "null", user_sequence_id |-> 0, sock1_id |-> a, sock2_id |-> b]

\* The checks without the one for a sock matched with itself.
CreateMatchCheck_noself(u, a, b) ==
    IF a \notin DOMAIN socks \/ b \notin DOMAIN socks THEN "not_found"
    ELSE IF socks[a].owner # u \/ socks[b].owner # u THEN "forbidden"
    ELSE IF socks[a].is_matched \/ socks[b].is_matched THEN "already_matched"
    ELSE "ok"

\* matches.py 86-113: the two queries and the four checks.
CreateMatchCheck(u, a, b) ==
    IF a \notin DOMAIN socks \/ b \notin DOMAIN socks THEN "not_found"
    ELSE IF socks[a].owner # u \/ socks[b].owner # u THEN "forbidden"
    ELSE IF socks[a].is_matched \/ socks[b].is_matched THEN "already_matched"
    ELSE IF a = b THEN "same_sock"
    ELSE "ok"

\* The status code of the HTTPException raised for an outcome; 500 is what
\* the framework answers to any other exception.
StatusOf(detail) ==
    CASE detail = "ok" -> 200
      [] detail = "not_found" -> 404
      [] detail = "forbidden" -> 403
      [] detail \in {"already_matched", "same_sock", "matched", "bad_type"} -> 400
      [] OTHER -> 500

\* matches.py 115-125: the statements the session flushes at commit.
CreateMatchTx(a, b) ==
    << [t |-> "upd_matched", id |-> a, val |-> TRUE],
       [t |-> "upd_matched", id |-> b, val |-> TRUE],
       [t |-> "ins_match", row |-> NewMatch(a, b)] >>

CreateMatchRead(r, u, a, b) ==
    /\ Free(r)
    /\ IF CreateMatchCheck(u, a, b) # "ok"
       THEN Reply(r)
       ELSE Goto(r, [Idle EXCEPT !.op = "create_match", !.pc = "cm_commit",
                                 !.user = u, !.a = a, !.b = b,
                                 !.tx = CreateMatchTx(a, b)])
    /\ UNCHANGED <<socks, matches, files, tasks, uploads, ret,
                 embedding_service, calls, users, legacy>>

\* matches.py 126-132: db.commit, db.refresh, return.
CreateMatchCommit(r) ==
    /\ req[r].pc = "cm_commit"
    /\ LET c == Commit(DB, req[r].tx)
       IN /\ socks' = c.db.socks
          /\ matches' = c.db.matches
          /\ Reply(r)
    /\ UNCHANGED <<files, tasks, uploads, ret,
                 embedding_service, calls, users, legacy>>

\* ---------------------------------------------------------- delete_match
\* The checks without the one for the owner.
DeleteMatchCheck_noowner(u, m) ==
    IF m \notin DOMAIN matches THEN "not_found"
    ELSE IF matches[m].sock1_id \notin DOMAIN socks
            \/ matches[m].sock2_id \notin DOMAIN socks THEN "error"
    ELSE "ok"

\* matches.py 150-163: the query, then match.sock1 / match.sock2 are loaded
\* through the relationship (None when the row is gone).
DeleteMatchCheck(u, m) ==
    IF m \notin DOMAIN matches THEN "not_found"
    ELSE IF matches[m].sock1_id \notin DOMAIN socks
            \/ matches[m].sock2_id \notin DOMAIN socks THEN "error"
    ELSE IF socks[matches[m].sock1_id].owner # u
            \/ socks[matches[m].sock2_id].owner # u THEN "forbidden"
    ELSE "ok"

\* A flag assignment that never reaches the database.
SetMatched_lost(id, val) == <<>>

\* An attribute assignment becomes an UPDATE only when it changes the
\* loaded value.
SetMatched(id, val) ==
    IF socks[id].is_matched # val
    THEN << [t |-> "upd_matched", id |-> id, val |-> val] >>
    ELSE <<>>

\* Decoupling that deletes the Match row and leaves the flags.
DecoupleTx_keepflags(m) == << [t |-> "del_match", id |-> m] >>

\* Decoupling that clears the flags and keeps the Match row.
DecoupleTx_keepmatch(m) ==
    SetMatched(matches[m].sock1_id, FALSE) \o SetMatched(matches[m].sock2_id, FALSE)

\* matches.py 165-170.
DecoupleTx(m) ==
    SetMatched(matches[m].sock1_id, FALSE)
    \o (IF matches[m].sock2_id # matches[m].sock1_id
        THEN SetMatched(matches[m].sock2_id, FALSE) ELSE <<>>)
    \o << [t |-> "del_match", id |-> m] >>

\* matches.py 184-189.
DeleteBothTx(m) ==
    << [t |-> "del_match", id |-> m],
       [t |-> "del_sock", id |-> matches[m].sock1_id],
       [t |-> "del_sock", id |-> matches[m].sock2_id] >>

\* The files delete_match removes when it deletes both socks
\* (matches.py 177-182): the original image of each.
MatchFilesToRemove(m) ==
    {socks[matches[m].sock1_id].image_path, socks[matches[m].sock2_id].image_path}

DeleteMatchRead(r, u, m, dec) ==
    /\ Free(r)
    /\ IF DeleteMatchCheck(u, m) # "ok"
       THEN Reply(r)
       ELSE Goto(r, [Idle EXCEPT !.op = "delete_match", !.pc = "dm_commit",
                                 !.user = u, !.m = m, !.dec = dec,
                                 !.a = matches[m].sock1_id,
                                 !.b = matches[m].sock2_id,
                                 !.rm = IF dec THEN {} ELSE MatchFilesToRemove(m),
                                 !.tx = IF dec THEN DecoupleTx(m)
                                        ELSE DeleteBothTx(m)])
    /\ UNCHANGED <<socks, matches, files, tasks, uploads, ret,
                 embedding_service, calls, users, legacy>>

\* matches.py 165-191: os.remove of each path that exists (none when
\* decoupling), then db.commit().
DeleteMatchCommit(r) ==
    /\ req[r].pc = "dm_commit"
    /\ files' = files \ req[r].rm
    /\ LET c == Commit(DB, req[r].tx)
       IN /\ socks' = c.db.socks
          /\ matches' = c.db.matches
          /\ Reply(r)
    /\ UNCHANGED <<tasks, uploads, ret,
                 embedding_service, calls, users, legacy>>

\* ----------------------------------------------------------- delete_sock
\* The checks without the one for a matched sock.
DeleteSockCheck_nomatched(u, s) ==
    IF s \notin DOMAIN socks THEN "not_found"
    ELSE IF socks[s].owner # u THEN "forbidden"
    ELSE "ok"

\* singles.py 620-649.
DeleteSockCheck(u, s) ==
    IF s \notin DOMAIN socks THEN "not_found"
    ELSE IF socks[s].owner # u THEN "forbidden"
    ELSE IF socks[s].is_matched THEN "matched"
    ELSE "ok"

\* singles.py 651-671: the original image and, when set, the
\* background-removed image.
SockFilesToRemove(s) ==
    {socks[s].image_path}
    \cup (IF socks[s].image_no_bg_path # NoPath
          THEN {socks[s].image_no_bg_path} ELSE {})

DeleteSockRead(r, u, s) ==
    /\ Free(r)
    /\ IF DeleteSockCheck(u, s) # "ok"
       THEN Reply(r)
       ELSE Goto(r, [Idle EXCEPT !.op = "delete_sock", !.pc = "ds_commit",
                                 !.user = u, !.a = s,
                                 !.rm = SockFilesToRemove(s),
                                 !.tx = << [t |-> "del_sock", id |-> s] >>])
    /\ UNCHANGED <<socks, matches, files, tasks, uploads, ret,
                 embedding_service, calls, users, legacy>>

\* singles.py 651-682: os.remove of each path that exists, then the row is
\* deleted and the deletion committed.
DeleteSockCommit(r) ==
    /\ req[r].pc = "ds_commit"
    /\ files' = files \ req[r].rm
    /\ LET c == Commit(DB, req[r].tx)
       IN /\ socks' = c.db.socks
          /\ matches' = c.db.matches
          /\ Reply(r)
    /\ UNCHANGED <<tasks, uploads, ret,
                 embedding_service, calls, users, legacy>>

\* ----------------------------------------------------------- upload_sock
\* singles.py 267-270: max(user_sequence_id) of the owner's rows, plus 1.
NextSequenceId(u) ==
    LET mine == {socks[i].seq : i \in {j \in DOMAIN socks : socks[j].owner = u}}
    IN (IF mine = {} THEN 0 ELSE MaxOf(mine)) + 1

\* create_embedding is a function of the image; the images uploaded
\* alternate between the two embeddings.
EmbeddingOf(k) == (k % Cardinality(Embeddings)) + 1

\* singles.py 273-279.
NewSock(u, seq, path, e) ==
    [owner |-> u, seq |-> seq, image_path |-> path, image_no_bg_path |-> NoPath,
     color_palette |-> "null", embedding |-> e, is_matched |-> FALSE]

\* singles.py 226-270: content-type check, the file is written under a
\* fresh name, create_embedding runs (when it raises the file is removed and
\* the upload fails), then the owner's next sequence number is read.
\* upload_sock is async def and does not await between this read and its
\* commit: two uploads interleave there only when they are served by two
\* processes on one database; the def handlers, on worker threads,
\* interleave with it in any deployment.
UploadBegin(r, u, isImage, ok) ==
    /\ Free(r)
    /\ IF ~isImage \/ ~ok
       THEN /\ Reply(r)
            /\ UNCHANGED <<files, uploads>>
       ELSE /\ uploads < Cardinality(DOMAIN InitSocks) + MaxUploads
            /\ uploads' = uploads + 1
            /\ files' = files \cup {ImgPath(uploads + 1)}
            /\ Goto(r, [Idle EXCEPT !.op = "upload_sock", !.pc = "up_commit",
                                    !.user = u, !.k = uploads + 1,
                                    !.seq = NextSequenceId(u)])
    /\ UNCHANGED <<socks, matches, tasks, ret,
                 embedding_service, calls, users, legacy>>

\* The task add_task registers (singles.py 286-291).
NewTask(id, path) == [sock_id |-> id, file_path |-> path, pc |-> "pending"]

\* singles.py 272-311: the row is inserted and committed, then the
\* background task is registered and the response returned.  dbok is FALSE
\* when db.commit() raises (sqlite answers "database is locked" to a writer
\* that waited too long): nothing catches the exception, the request ends
\* in a 500 with the session rolled back and the file where it was written.
UploadCommit(r, dbok) ==
    /\ req[r].pc = "up_commit"
    /\ IF dbok
       THEN LET row == NewSock(req[r].user, req[r].seq, ImgPath(req[r].k),
                               EmbeddingOf(req[r].k))
                c == Commit(DB, << [t |-> "ins_sock", row |-> row] >>)
            IN /\ socks' = c.db.socks
               /\ matches' = c.db.matches
               /\ tasks' = tasks \cup {NewTask(NextId(socks), ImgPath(req[r].k))}
       ELSE UNCHANGED <<socks, matches, tasks>>
    /\ Reply(r)
    /\ UNCHANGED <<files, uploads, ret,
                 embedding_service, calls, users, legacy>>

\* ------------------------------------------- process_background_removal
\* A task that deletes the sock row when background removal fails.
BgRemove_cleanup(t, ok) ==
    /\ t \in tasks
    /\ t.pc = "pending"
    /\ IF t.file_path \notin files \/ ~ok
       THEN /\ tasks' = tasks \ {t}
            /\ socks' = Without(socks, t.sock_id)
            /\ UNCHANGED files
       ELSE /\ files' = files \cup {NoBgPath(t.file_path)}
            /\ tasks' = (tasks \ {t}) \cup {[t EXCEPT !.pc = "saved"]}
            /\ UNCHANGED socks
    /\ UNCHANGED <<matches, req, uploads, ret,
                 embedding_service, calls, users, legacy>>

\* singles.py 164-179: open the uploaded file, remove the background
\* (either may raise: the handler at 202 logs and the task ends), save the
\* result under a fresh name.
BgRemove(t, ok) ==
    /\ t \in tasks
    /\ t.pc = "pending"
    /\ IF t.file_path \notin files \/ ~ok
       THEN /\ tasks' = tasks \ {t}
            /\ UNCHANGED files
       ELSE /\ files' = files \cup {NoBgPath(t.file_path)}
            /\ tasks' = (tasks \ {t}) \cup {[t EXCEPT !.pc = "saved"]}
    /\ UNCHANGED <<socks, matches, req, uploads, ret,
                 embedding_service, calls, users, legacy>>

\* singles.py 181-201: the palette is extracted (pal is "null" when the
\* list is empty), then a new session updates the row when it exists.
BgPersist(t, pal) ==
    /\ t \in tasks
    /\ t.pc = "saved"
    /\ LET stmts == IF t.sock_id \in DOMAIN socks
                    THEN << [t |-> "upd_bg", id |-> t.sock_id,
                             path |-> NoBgPath(t.file_path), pal |-> pal] >>
                    ELSE <<>>
           c == Commit(DB, stmts)
       IN /\ socks' = c.db.socks
          /\ matches' = c.db.matches
    /\ tasks' = tasks \ {t}
    /\ UNCHANGED <<files, req, uploads, ret,
                 embedding_service, calls, users, legacy>>

\* ----------------------------------------------------- search_by_sock_id
\* Stored embeddings: vectors of length 5 (create_embedding normalises to a
\* common length).
Vec(e) ==
    CASE e = 1 -> <<3, 4>>
      [] e = 2 -> <<4, 3>>
      [] e = 4 -> <<5, 0>>
      [] e = 5 -> <<6, 8>>
      [] OTHER -> <<-3, -4>>

Dot(v, w) == v[1] * w[1] + v[2] * w[2]

\* np.linalg.norm.
Norm(v) == CHOOSE n \in 0 .. 10 : n * n = Dot(v, v)

\* A similarity that normalises only its first argument.
CalculateSimilarity_halfnorm(e1, e2) ==
    (5 * Dot(Vec(e1), Vec(e2))) \div Norm(Vec(e1))

\* embedding.py 73-92: both vectors are divided by their norm, then the dot
\* product is returned; here in units of 1/25.
CalculateSimilarity(e1, e2) ==
    (25 * Dot(Vec(e1), Vec(e2))) \div (Norm(Vec(e1)) * Norm(Vec(e2)))

\* A filter that also wants the background-removed image to be there.
SearchFilter_processed(u, s, i) ==
    /\ socks[i].owner = u /\ ~socks[i].is_matched /\ i # s
    /\ socks[i].image_no_bg_path # NoPath

\* A filter that forgets the owner.
SearchFilter_anyowner(u, s, i) ==
    ~socks[i].is_matched /\ i # s

\* singles.py 585-589: the caller's unmatched socks other than the query.
SearchFilter(u, s, i) ==
    socks[i].owner = u /\ ~socks[i].is_matched /\ i # s

RECURSIVE RowsUpTo(_, _, _)
RowsUpTo(u, s, n) ==
    IF n = 0 THEN <<>>
    ELSE RowsUpTo(u, s, n - 1)
         \o (IF n \in DOMAIN socks /\ SearchFilter(u, s, n) THEN <<n>> ELSE <<>>)

\* singles.py 592-596.
Scored(s, ids) ==
    [j \in 1 .. Len(ids) |->
        [sock_id |-> ids[j],
         similarity |-> CalculateSimilarity(socks[s].embedding,
                                            socks[ids[j]].embedding)]]

RECURSIVE InsertDesc(_, _)
InsertDesc(sorted, x) ==
    IF sorted = <<>> THEN <<x>>
    ELSE IF sorted[Len(sorted)].similarity >= x.similarity THEN Append(sorted, x)
    ELSE Append(InsertDesc(SubSeq(sorted, 1, Len(sorted) - 1), x),
                sorted[Len(sorted)])

\* singles.py 599: list.sort(reverse=True) is stable.
RECURSIVE SortDesc(_)
SortDesc(q) ==
    IF q = <<>> THEN <<>>
    ELSE InsertDesc(SortDesc(SubSeq(q, 1, Len(q) - 1)), q[Len(q)])

DefaultLimit == 10

Truncate(q, limit) == SubSeq(q, 1, IF Len(q) < limit THEN Len(q) ELSE limit)

SearchResult(u, s, limit) ==
    Truncate(SortDesc(Scored(s, RowsUpTo(u, s, NextId(socks)))), limit)

\* singles.py 567-579.
SearchCheck(u, s) ==
    IF s \notin DOMAIN socks THEN "not_found"
    ELSE IF socks[s].owner # u THEN "forbidden"
    ELSE "ok"

\* ---------------------------------------------------------- read handlers
\* singles.py 349-372: get_sock.
GetSockCheck(u, s) ==
    IF s \notin DOMAIN socks THEN "not_found"
    ELSE IF socks[s].owner # u THEN "forbidden"
    ELSE "ok"

\* matches.py 60-75: get_match; match.sock1 is None when the row is gone
\* and reading its owner_id raises.
GetMatchCheck(u, m) ==
    IF m \notin DOMAIN matches THEN "not_found"
    ELSE IF matches[m].sock1_id \notin DOMAIN socks
            \/ matches[m].sock2_id \notin DOMAIN socks THEN "error"
    ELSE IF socks[matches[m].sock1_id].owner # u
            \/ socks[matches[m].sock2_id].owner # u THEN "forbidden"
    ELSE "ok"

\* matches.py 20-50: get_matches, the ids of the matches it returns.
GetMatches(u) ==
    {m \in DOMAIN matches :
        /\ matches[m].sock1_id \in DOMAIN socks
        /\ matches[m].sock2_id \in DOMAIN socks
        /\ socks[matches[m].sock1_id].owner = u
        /\ socks[matches[m].sock2_id].owner = u}

\* ------------------------------------------------------------------ next
Next ==
    \/ \E r \in Slots, u \in Users, a \in SockIds, b \in SockIds :
          CreateMatchRead(r, u, a, b)
    \/ \E r \in Slots : CreateMatchCommit(r)
    \/ \E r \in Slots, u \in Users, m \in MatchIds, dec \in BOOLEAN :
          DeleteMatchRead(r, u, m, dec)
    \/ \E r \in Slots : DeleteMatchCommit(r)
    \/ \E r \in Slots, u \in Users, s \in SockIds : DeleteSockRead(r, u, s)
    \/ \E r \in Slots : DeleteSockCommit(r)
    \/ \E r \in Slots, u \in Users, isImage \in BOOLEAN, ok \in BOOLEAN :
          UploadBegin(r, u, isImage, ok)
    \/ \E r \in Slots, dbok \in BOOLEAN : UploadCommit(r, dbok)
    \/ \E t \in tasks, ok \in BOOLEAN : BgRemove(t, ok)
    \/ \E t \in tasks, pal \in Palettes : BgPersist(t, pal)

Spec == Init /\ [][Next]_vars

\* ------------------------------------------------ library functions
\* The functions of db_utils.py and of the embedding services are called
\* here directly, on a stored table and with arguments drawn from small
\* sets.  db_utils.py names the owner column of Sock user_id.
Vectors == 1 .. 4
SimVectors == 1 .. 5
MaxStored == 2
FindLimit == 10
FindThreshold == 75
Limits == {0, 1, 2, FindLimit}
Thresholds == {0, FindThreshold, 97}

\* dot / (norm * norm), in hundredths.
Cosine(v, w) == (100 * Dot(v, w)) \div (Norm(v) * Norm(w))

\* The similarity without the conversion to [0, 1].
BruteSimilarity_raw(v, w) == Cosine(v, w)

\* db_utils.py 131-136: cosine similarity, then (similarity + 1) / 2.
BruteSimilarity(v, w) == (Cosine(v, w) + 100) \div 2

\* db_utils.py 88: 1 - (embedding <=> query); <=> is pgvector's cosine
\* distance, 1 - cosine.
PgSimilarity(v, w) == 100 - (100 - Cosine(v, w))

\* db_utils.py 119-123 and 90-92: the rows both branches select from.
FindFilter(u, i) == socks[i].owner = u /\ ~socks[i].is_matched

RECURSIVE FindRowsUpTo(_, _)
FindRowsUpTo(u, n) ==
    IF n = 0 THEN <<>>
    ELSE FindRowsUpTo(u, n - 1)
         \o (IF n \in DOMAIN socks /\ FindFilter(u, n) THEN <<n>> ELSE <<>>)

RECURSIVE KeepAtLeast(_, _)
KeepAtLeast(q, thr) ==
    IF q = <<>> THEN <<>>
    ELSE (IF Head(q).similarity >= thr THEN <<Head(q)>> ELSE <<>>)
         \o KeepAtLeast(Tail(q), thr)

\* db_utils.py 117-143: the branch for a database that is not PostgreSQL.
FindSimilarBrute(qv, u, limit, thr) ==
    LET ids == FindRowsUpTo(u, NextId(socks))
        scored == [j \in 1 .. Len(ids) |->
                     [sock_id |-> ids[j],
                      similarity |-> BruteSimilarity(Vec(qv),
                                                     Vec(socks[ids[j]].embedding))]]
    IN Truncate(SortDesc(KeepAtLeast(scored, thr)), limit)

\* db_utils.py 79-115: the pgvector branch.  ORDER BY similarity DESC leaves
\* the order of rows with equal similarity to the database: every order is
\* a possible result.
FindSimilarPg(qv, u, limit, thr) ==
    LET elig == {i \in DOMAIN socks :
                    /\ FindFilter(u, i)
                    /\ PgSimilarity(Vec(qv), Vec(socks[i].embedding)) >= thr}
        n == Cardinality(elig)
        orders == {f \in [1 .. n -> elig] :
                     /\ \A j, k \in 1 .. n : j # k => f[j] # f[k]
                     /\ \A j \in 1 .. n - 1 :
                           PgSimilarity(Vec(qv), Vec(socks[f[j]].embedding))
                           >= PgSimilarity(Vec(qv), Vec(socks[f[j + 1]].embedding))}
    IN {Truncate([j \in 1 .. n |->
                    [sock_id |-> f[j],
                     similarity |-> PgSimilarity(Vec(qv), Vec(socks[f[j]].embedding))]],
                 limit) : f \in orders}

\* find_similar_socks(db, embedding, user_id, limit, threshold) on the
\* backend settings.DATABASE_URL selects (db_utils.py 79).
FindSimilarSocks(backend, qv, u, limit, thr) ==
    /\ \E value \in (IF backend = "postgresql"
                      THEN FindSimilarPg(qv, u, limit, thr)
                      ELSE {FindSimilarBrute(qv, u, limit, thr)}) :
          ret' = [fn |-> "find_similar_socks", backend |-> backend, qv |-> qv,
                  user |-> u, limit |-> limit, thr |-> thr, value |-> value]
    /\ UNCHANGED <<socks, matches, files, req, tasks, uploads,
                 embedding_service, calls, users, legacy>>

\* services/clip_embedding.py 240-264: cosine similarity, then
\* (similarity + 1) / 2, in hundredths.
ClipCalculateSimilarity(e1, e2) == (Cosine(Vec(e1), Vec(e2)) + 100) \div 2

\* calculate_similarity of one of the two services; the value is in
\* hundredths (CalculateSimilarity counts in 1/25).
CallCalculateSimilarity(service, e1, e2) ==
    /\ ret' = [fn |-> "calculate_similarity", service |-> service,
               e1 |-> e1, e2 |-> e2,
               value |-> IF service = "EmbeddingService"
                         THEN 4 * CalculateSimilarity(e1, e2)
                         ELSE ClipCalculateSimilarity(e1, e2)]
    /\ UNCHANGED <<socks, matches, files, req, tasks, uploads,
                 embedding_service, calls, users, legacy>>

\* A stored sock: only owner, embedding and is_matched matter to the
\* library functions.
StoredSock(i, u, e, matched) ==
    [owner |-> u, seq |-> i, image_path |-> ImgPath(i), image_no_bg_path |-> NoPath,
     color_palette |-> "null", embedding |-> e, is_matched |-> matched]

\* The tables the functions are called on: up to MaxStored socks of any
\* owner and embedding, unmatched, or with the first two matched to each
\* other when they have one owner.
InitStored ==
    /\ \E n \in 0 .. MaxStored :
       \E own \in [1 .. n -> Users], emb \in [1 .. n -> Vectors], paired \in BOOLEAN :
          LET pair == paired /\ n >= 2 /\ own[1] = own[2]
          IN /\ paired => pair
             /\ socks = [i \in 1 .. n |->
                            StoredSock(i, own[i], emb[i], pair /\ i <= 2)]
             /\ matches = IF pair
                          THEN (1 :> [user_id |-> own[1], user_sequence_id |-> 1,
                                      sock1_id |-> 1, sock2_id |-> 2])
                          ELSE << >>
             /\ files = {ImgPath(i) : i \in 1 .. n}
             /\ uploads = n
    /\ req = [r \in Slots |-> Idle]
    /\ tasks = {}
    /\ ret = NoRet
    /\ InitRest

\* Each behaviour is one call on one table.
NextLibrary ==
    \/ \E backend \in {"postgresql", "sqlite"}, qv \in Vectors, u \in Users,
          limit \in Limits, thr \in Thresholds :
          ret = NoRet /\ FindSimilarSocks(backend, qv, u, limit, thr)
    \/ \E service \in {"EmbeddingService", "CLIPEmbeddingService"},
          e1 \in SimVectors, e2 \in SimVectors :
          ret = NoRet /\ CallCalculateSimilarity(service, e1, e2)

SpecLibrary == InitStored /\ [][NextLibrary]_vars

\* ------------------------------------------------------- fresh database
\* A newly created database: no sock, no match, no file.  Only uploads,
\* their background tasks and delete_sock can act on it until a match
\* exists.
InitFresh ==
    /\ socks = << >>
    /\ matches = << >>
    /\ files = {}
    /\ req = [r \in Slots |-> Idle]
    /\ tasks = {}
    /\ uploads = 0
    /\ ret = NoRet
    /\ InitRest

NextFresh ==
    \/ \E r \in Slots, u \in Users, isImage \in BOOLEAN, ok \in BOOLEAN :
          UploadBegin(r, u, isImage, ok)
    \/ \E r \in Slots, dbok \in BOOLEAN : UploadCommit(r, dbok)
    \/ \E t \in tasks, ok \in BOOLEAN : BgRemove(t, ok)
    \/ \E t \in tasks, pal \in Palettes : BgPersist(t, pal)
    \/ \E r \in Slots, u \in Users, s \in SockIds : DeleteSockRead(r, u, s)
    \/ \E r \in Slots : DeleteSockCommit(r)

SpecFresh == InitFresh /\ [][NextFresh]_vars

\* ----------------------------------------------------- feature extraction
\* extract_color_palette (routers/singles.py) and
\* CLIPEmbeddingService.extract_features (services/clip_embedding.py) as
\* functions of their inputs.  A function's outcome is either a raised
\* exception or a returned value.
Raise == [raised |-> TRUE]
Return(v) == [raised |-> FALSE, value |-> v]

\* try: body / except Exception: return default.
TryExcept(body, default) == IF body.raised THEN Return(default) ELSE body

\* Cluster centres are floating-point RGB triples; the model writes them
\* in tenths of a level, <<179, 179, 179>> being (17.9, 17.9, 17.9).
Black == <<0, 0, 0>>
DarkGrey == <<179, 179, 179>>
White == <<2550, 2550, 2550>>
Red == <<2550, 0, 0>>
NearRed == <<2400, 0, 0>>
Green == <<0, 2550, 0>>
Blue == <<0, 0, 2550>>
ClusterColours == {Black, DarkGrey, White, Red, NearRed, Green, Blue}

MaxClusters == 6
NumColors == 5
MinDistance == 30

\* The lists of k different colours.
RECURSIVE ColourLists(_)
ColourLists(k) ==
    IF k = 0 THEN {<< >>}
    ELSE UNION {{Append(l, c) : c \in ClusterColours \ {l[i] : i \in DOMAIN l}} :
                   l \in ColourLists(k - 1)}

Max3(c) == CHOOSE x \in {c[1], c[2], c[3]} : \A y \in {c[1], c[2], c[3]} : y <= x
Min3(c) == CHOOSE x \in {c[1], c[2], c[3]} : \A y \in {c[1], c[2], c[3]} : x <= y

\* color_saturation(color) > 0.4, where the saturation is
\* (max - min) / max, and 0 for black.
HighSaturation(c) == Max3(c) # 0 /\ 5 * (Max3(c) - Min3(c)) > 2 * Max3(c)

\* The square of color_distance, in squared tenths.
Distance2(c1, c2) ==
    (c1[1] - c2[1]) * (c1[1] - c2[1]) + (c1[2] - c2[2]) * (c1[2] - c2[2])
    + (c1[3] - c2[3]) * (c1[3] - c2[3])

\* is_distinct: no selected colour is closer than min_distance.
IsDistinct(c, selected) ==
    \A i \in DOMAIN selected :
        Distance2(c, selected[i]) >= (10 * MinDistance) * (10 * MinDistance)

\* First pass, over the high-saturation colours: the length is tested
\* after each colour.
RECURSIVE FirstPass(_, _)
FirstPass(list, selected) ==
    IF list = << >> THEN selected
    ELSE LET sel == IF IsDistinct(Head(list), selected)
                    THEN Append(selected, Head(list)) ELSE selected
         IN IF Len(sel) >= NumColors THEN sel ELSE FirstPass(Tail(list), sel)

\* Second pass, over the other colours: the length is tested first.
RECURSIVE SecondPass(_, _)
SecondPass(list, selected) ==
    IF list = << >> \/ Len(selected) >= NumColors THEN selected
    ELSE SecondPass(Tail(list),
                    IF IsDistinct(Head(list), selected)
                    THEN Append(selected, Head(list)) ELSE selected)

\* color_data after the sort is the argument: the score grows with the
\* cluster's pixel count, so every order of the clusters is the order of
\* some image.
SelectColors(color_data) ==
    SecondPass(SelectSeq(color_data, LAMBDA c : ~HighSaturation(c)),
               FirstPass(SelectSeq(color_data, HighSaturation), << >>))

\* color.astype(int) and the two hex digits of each channel: the levels
\* the returned code stands for.
HexColor(c) == <<c[1] \div 10, c[2] \div 10, c[3] \div 10>>

\* The body of extract_color_palette: no opaque pixel returns [], and any
\* step may raise (fault).
PaletteBody(color_data, fault) ==
    IF color_data = << >> THEN Return(<< >>)
    ELSE IF fault THEN Raise
    ELSE LET selected_colors == SelectColors(color_data)
         IN Return([i \in DOMAIN selected_colors |-> HexColor(selected_colors[i])])

ExtractColorPalette(color_data, fault) ==
    TryExcept(PaletteBody(color_data, fault), << >>)

CallExtractColorPalette(color_data, fault) ==
    /\ ret' = [fn |-> "extract_color_palette", colors |-> color_data,
               fault |-> fault,
               out |-> ExtractColorPalette(color_data, fault)]
    /\ UNCHANGED <<socks, matches, files, req, tasks, uploads,
                 embedding_service, calls, users, legacy>>

\* The steps of extract_features and of its helpers that can raise.
OuterSteps == {"imread", "cvtColor", "dumps"}
TextureSteps == {"mean_intensity", "std_intensity", "mean_gradient", "lbp_histogram"}
FeatureSteps == OuterSteps \cup {"dominant_color", "pattern"} \cup TextureSteps

\* The keys of a complete texture descriptor, in the order of the dict.
TextureKeys == <<"mean_intensity", "std_intensity", "mean_gradient", "lbp_histogram">>

ExtractDominantColor(faults) ==
    TryExcept(IF "dominant_color" \in faults THEN Raise ELSE Return("hex"),
              "#808080")

DetectPattern(faults) ==
    TryExcept(IF "pattern" \in faults THEN Raise ELSE Return("detected"),
              "unknown")

\* A helper that adds each value to the dict as soon as it is computed and
\* returns what it has when a step raises.
ExtractTextureFeatures_partial(faults) ==
    Return(SubSeq(TextureKeys, 1,
                  MaxOf({k \in 0 .. Len(TextureKeys) :
                            \A i \in 1 .. k : TextureKeys[i] \notin faults})))

\* The dict is built after the four values.
ExtractTextureFeatures(faults) ==
    TryExcept(IF faults \cap TextureSteps # {} THEN Raise ELSE Return(TextureKeys),
              << >>)

\* json.dumps of a dict: the text of its keys between braces.
JsonDumps(d) == <<"{">> \o d \o <<"}">>

FeaturesDefault ==
    [dominant_color |-> "None", pattern_type |-> "unknown",
     texture_features |-> JsonDumps(<< >>)]

\* cv2.imread gives None for an unreadable file and cvtColor raises on it.
FeaturesBody(faults) ==
    IF faults \cap OuterSteps # {} THEN Raise
    ELSE Return([dominant_color |-> ExtractDominantColor(faults).value,
                 pattern_type |-> DetectPattern(faults).value,
                 texture_features |-> JsonDumps(ExtractTextureFeatures(faults).value)])

ExtractFeatures(faults) == TryExcept(FeaturesBody(faults), FeaturesDefault)

CallExtractFeatures(faults) ==
    /\ ret' = [fn |-> "extract_features", faults |-> faults,
               out |-> ExtractFeatures(faults)]
    /\ UNCHANGED <<socks, matches, files, req, tasks, uploads,
                 embedding_service, calls, users, legacy>>

InitFeatures ==
    /\ socks = << >>
    /\ matches = << >>
    /\ files = {}
    /\ req = [r \in Slots |-> Idle]
    /\ tasks = {}
    /\ uploads = 0
    /\ ret = NoRet
    /\ InitRest

\* Each behaviour is one call.
NextFeatures ==
    \/ /\ ret = NoRet
       /\ \E n \in 0 .. MaxClusters :
          \E color_data \in ColourLists(n), fault \in BOOLEAN :
             CallExtractColorPalette(color_data, fault)
    \/ /\ ret = NoRet
       /\ \E faults \in SUBSET FeatureSteps : CallExtractFeatures(faults)

SpecFeatures == InitFeatures /\ [][NextFeatures]_vars

\* ------------------------------------------------- get_embedding_service
\* app/embedding.py 95-104.  The function is a plain def used as a
\* dependency of upload_sock and search_by_sock_id, so each request runs
\* it on a thread of the worker pool; the threads interleave between its
\* statements.
\* Line 102: if _embedding_service is None.
TestService(t) ==
    /\ calls[t].pc = "out"
    /\ calls' = [calls EXCEPT ![t].pc =
                    IF embedding_service = 0 THEN "construct" ELSE "return"]
    /\ UNCHANGED <<socks, matches, files, req, tasks, uploads, ret,
                   embedding_service, users, legacy>>

\* Line 103, right-hand side: EmbeddingService() loads the model.
ConstructService(t) ==
    /\ calls[t].pc = "construct"
    /\ calls' = [calls EXCEPT ![t].pc = "assign", ![t].obj = t]
    /\ UNCHANGED <<socks, matches, files, req, tasks, uploads, ret,
                   embedding_service, users, legacy>>

\* Line 103, the assignment to the global.
AssignService(t) ==
    /\ calls[t].pc = "assign"
    /\ embedding_service' = calls[t].obj
    /\ calls' = [calls EXCEPT ![t].pc = "return"]
    /\ UNCHANGED <<socks, matches, files, req, tasks, uploads, ret, users, legacy>>

\* Line 104: return _embedding_service, read again from the global.
ReturnService(t) ==
    /\ calls[t].pc = "return"
    /\ calls' = [calls EXCEPT ![t].pc = "out", ![t].got = embedding_service]
    /\ UNCHANGED <<socks, matches, files, req, tasks, uploads, ret,
                   embedding_service, users, legacy>>

NextService ==
    \/ \E t \in Callers : TestService(t)
    \/ \E t \in Callers : ConstructService(t)
    \/ \E t \in Callers : AssignService(t)
    \/ \E t \in Callers : ReturnService(t)

SpecService == InitFresh /\ [][NextService]_vars

\* --------------------------------------------------------------- register
\* routers/auth.py 39-73.  The emails a request may carry.
Emails == Users \cup {"carol"}

EmailRegistered(e) == \E i \in DOMAIN users : users[i].email = e

\* Lines 43-49: 400 when a user with the email exists.
RegisterCheck(e) == IF EmailRegistered(e) THEN "email_registered" ELSE "ok"

\* An insert that the unique index does not look at.
UniqueOK_off(table, e) == TRUE

\* The unique index ix_users_email (models.py 11, migration 004).
UniqueOK(table, e) == \A i \in DOMAIN table : table[i].email # e

\* register is a plain def: it runs on a worker thread, and other requests
\* run between its query and its commit.
RegisterRead(r, e) ==
    /\ Free(r)
    /\ IF RegisterCheck(e) # "ok"
       THEN Reply(r)
       ELSE Goto(r, [Idle EXCEPT !.op = "register", !.pc = "rg_commit", !.user = e])
    /\ UNCHANGED <<socks, matches, files, tasks, uploads, ret,
                   embedding_service, calls, users, legacy>>

\* Lines 65-73: db.add, db.commit; an IntegrityError of the index is
\* logged and raised again, and the row is not inserted.
RegisterCommit(r) ==
    /\ req[r].pc = "rg_commit"
    /\ users' = IF UniqueOK(users, req[r].user)
                THEN users @@ (NextId(users) :> [email |-> req[r].user])
                ELSE users
    /\ Reply(r)
    /\ UNCHANGED <<socks, matches, files, tasks, uploads, ret,
                   embedding_service, calls, legacy>>

\* A database without users.
InitAuth ==
    /\ socks = << >>
    /\ matches = << >>
    /\ files = {}
    /\ req = [r \in Slots |-> Idle]
    /\ tasks = {}
    /\ uploads = 0
    /\ ret = NoRet
    /\ embedding_service = 0
    /\ calls = [t \in Callers |-> NoCall]
    /\ users = << >>
    /\ legacy = << >>

NextAuth ==
    \/ \E r \in Slots, e \in Emails : RegisterRead(r, e)
    \/ \E r \in Slots : RegisterCommit(r)

SpecAuth == InitAuth /\ [][NextAuth]_vars

\* ------------------------------------------------ routers/socks.py pairing
\* The socks table as routers/socks.py reads and writes it: the owner in
\* user_id and the partner in matched_with_id (0 for NULL).  confirm_match
\* and delete_sock are async defs that never await: each runs from its
\* first query to its commit without another request in between.
MaxLegacy == 3

LegacySock(u) == [user_id |-> u, is_matched |-> FALSE, matched_with_id |-> 0]

\* The ids a request may name: those of the rows, and one more.
LegacyIds == 1 .. (MaxLegacy + 1)

\* db.query(SockModel).filter(id == s, user_id == current_user.id).first()
\* finds a row.
LegacyFound(u, s) == s \in DOMAIN legacy /\ legacy[s].user_id = u

\* socks.py 325-345: 404 when a sock is missing or of another user, 400
\* when one is matched.
ConfirmMatchCheck(u, a, b) ==
    IF ~LegacyFound(u, a) \/ ~LegacyFound(u, b) THEN "not_found"
    ELSE IF legacy[a].is_matched \/ legacy[b].is_matched THEN "already_matched"
    ELSE "ok"

\* socks.py 348-354: the four assignments in their order, then the commit.
ConfirmMatch(u, a, b) ==
    /\ legacy' =
          IF ConfirmMatchCheck(u, a, b) # "ok" THEN legacy
          ELSE LET first == [legacy EXCEPT ![a].is_matched = TRUE,
                                           ![a].matched_with_id = b]
               IN [first EXCEPT ![b].is_matched = TRUE,
                                ![b].matched_with_id = a]
    /\ UNCHANGED <<socks, matches, files, req, tasks, uploads, ret,
                   embedding_service, calls, users>>

\* socks.py 386-419: 404 when the sock is missing; the partner, when the
\* sock is matched and the partner's row exists, is unmatched; the sock is
\* deleted.
LegacyDeleteSock(u, s) ==
    /\ legacy' =
          IF ~LegacyFound(u, s) THEN legacy
          ELSE LET p == legacy[s].matched_with_id
                   unmatched ==
                       IF legacy[s].is_matched /\ p # 0 /\ p \in DOMAIN legacy
                       THEN [legacy EXCEPT ![p].is_matched = FALSE,
                                           ![p].matched_with_id = 0]
                       ELSE legacy
               IN Without(unmatched, s)
    /\ UNCHANGED <<socks, matches, files, req, tasks, uploads, ret,
                   embedding_service, calls, users>>

\* Up to MaxLegacy uploaded socks of any owners, none matched.
InitLegacy ==
    /\ socks = << >>
    /\ matches = << >>
    /\ files = {}
    /\ req = [r \in Slots |-> Idle]
    /\ tasks = {}
    /\ uploads = 0
    /\ ret = NoRet
    /\ embedding_service = 0
    /\ calls = [t \in Callers |-> NoCall]
    /\ users = InitUsers
    /\ \E n \in 0 .. MaxLegacy : \E own \in [1 .. n -> Users] :
          legacy = [i \in 1 .. n |-> LegacySock(own[i])]

NextLegacy ==
    \/ \E u \in Users, a \in LegacyIds, b \in LegacyIds : ConfirmMatch(u, a, b)
    \/ \E u \in Users, s \in LegacyIds : LegacyDeleteSock(u, s)

SpecLegacy == InitLegacy /\ [][NextLegacy]_vars

\* ================================================================ claims
\* The step in which slot r leaves the program point pc and answers.
Answers(r, pc) == req[r].pc = pc /\ req'[r].pc = "idle"

\* The Match rows a step adds for the pair a, b (in either order).
AddedFor(a, b) ==
    {m \in DOMAIN matches' :
        /\ m \notin DOMAIN matches
        /\ {matches'[m].sock1_id, matches'[m].sock2_id} = {a, b}}

\* Two distinct existing unmatched socks of the caller.
Matchable(u, a, b) ==
    /\ a \in DOMAIN socks /\ b \in DOMAIN socks /\ a # b
    /\ socks[a].owner = u /\ socks[b].owner = u
    /\ ~socks[a].is_matched /\ ~socks[b].is_matched

\* C1: when create_match commits for two distinct existing unmatched socks
\* of the caller, both socks become matched and exactly one Match row is
\* added for the pair, with the caller as user_id and a sequence number.
C1_CreateMatchSucceeds ==
    [][\A r \in Slots :
          (Answers(r, "cm_commit") /\ Matchable(req[r].user, req[r].a, req[r].b))
          => /\ socks'[req[r].a].is_matched
             /\ socks'[req[r].b].is_matched
             /\ Cardinality(AddedFor(req[r].a, req[r].b)) = 1
             /\ \A m \in AddedFor(req[r].a, req[r].b) :
                   /\ matches'[m].user_id = req[r].user
                   /\ matches'[m].user_sequence_id >= 1]_vars

\* The cases in which the claim wants create_match rejected.
Unmatchable(u, a, b) ==
    \/ a = b
    \/ a \notin DOMAIN socks
    \/ b \notin DOMAIN socks
    \/ (a \in DOMAIN socks /\ (socks[a].is_matched \/ socks[a].owner # u))
    \/ (b \in DOMAIN socks /\ (socks[b].is_matched \/ socks[b].owner # u))

\* The step in which slot r takes a request of handler op past its checks.
Proceeds(r, op) == req[r].pc = "idle" /\ req'[r].op = op

\* C2: a create_match on a matched sock, on equal ids, on a missing sock or
\* on a sock of another owner is answered 400, 403 or 404 by the checks, and
\* no such request gets past them: it ends where it was taken, before any
\* sock row, Match row or file is written.
C2_CreateMatchRejected ==
    /\ [](\A u \in Users, a \in SockIds, b \in SockIds :
             Unmatchable(u, a, b)
             => StatusOf(CreateMatchCheck(u, a, b)) \in {400, 403, 404})
    /\ [][\A r \in Slots :
             Proceeds(r, "create_match")
             => ~Unmatchable(req'[r].user, req'[r].a, req'[r].b)]_vars

\* A state in which each rejected case can be requested: a matched sock, an
\* unmatched sock, socks of two owners, and an id with no row.
C2_Witness ==
    /\ \E a \in DOMAIN socks : socks[a].is_matched
    /\ \E a \in DOMAIN socks : ~socks[a].is_matched
    /\ \E a, b \in DOMAIN socks : socks[a].owner # socks[b].owner
    /\ \E a \in SockIds : a \notin DOMAIN socks

\* C3: of two create_match requests that passed their checks on a shared
\* sock, exactly one succeeds: when the first commits, either it has
\* matched its pair or the other still can, never both and never neither;
\* and the shared sock is not referenced by two Match rows.
C3_ExactlyOneWins ==
    [][\A r, q \in Slots :
          (/\ r # q
           /\ Answers(r, "cm_commit")
           /\ req[q].pc = "cm_commit"
           /\ {req[r].a, req[r].b} \cap {req[q].a, req[q].b} # {})
          => /\ (AddedFor(req[r].a, req[r].b) # {})
                # (Commit([socks |-> socks', matches |-> matches'], req[q].tx).err = "ok")
             /\ \A s \in {req[r].a, req[r].b} \cap {req[q].a, req[q].b} :
                   Cardinality({m \in DOMAIN matches' :
                       s \in {matches'[m].sock1_id, matches'[m].sock2_id}}) <= 1]_vars

\* A state in which two requests have passed their checks on a shared sock.
C3_Race ==
    \E r, q \in Slots :
        /\ r # q
        /\ req[r].pc = "cm_commit" /\ req[q].pc = "cm_commit"
        /\ {req[r].a, req[r].b} \cap {req[q].a, req[q].b} # {}

\* C4: every Match row references two existing socks of one owner that
\* both have is_matched = true.
C4_MatchImpliesMatched ==
    \A m \in DOMAIN matches :
        /\ matches[m].sock1_id \in DOMAIN socks
        /\ matches[m].sock2_id \in DOMAIN socks
        /\ socks[matches[m].sock1_id].owner = socks[matches[m].sock2_id].owner
        /\ socks[matches[m].sock1_id].is_matched
        /\ socks[matches[m].sock2_id].is_matched

\* A Match row exists while an upload has committed and a delete_match of
\* that row and a create_match are in flight.
C4_Witness ==
    /\ DOMAIN matches # {}
    /\ Cardinality(DOMAIN socks) > Cardinality(DOMAIN InitSocks)
    /\ \E r \in Slots : req[r].pc = "dm_commit" /\ req[r].m \in DOMAIN matches

\* C5: no sock is referenced by more than one Match row, and no Match row
\* has sock1 = sock2.
C5_OneMatchPerSock ==
    /\ \A m \in DOMAIN matches : matches[m].sock1_id # matches[m].sock2_id
    /\ \A m, n \in DOMAIN matches :
          m # n => {matches[m].sock1_id, matches[m].sock2_id}
                   \cap {matches[n].sock1_id, matches[n].sock2_id} = {}

\* A Match row exists while its owner has a third, unmatched sock that a
\* create_match could try to pair with one of the row's socks.
C5_Witness ==
    \E m \in DOMAIN matches, i \in DOMAIN socks :
        /\ i \notin {matches[m].sock1_id, matches[m].sock2_id}
        /\ ~socks[i].is_matched
        /\ socks[i].owner = matches[m].user_id
        /\ CreateMatchCheck(socks[i].owner, i, matches[m].sock1_id)
              = "already_matched"

\* C6: match confirmation is all or nothing: in every committed state a
\* sock with is_matched = true is in a Match row whose two socks are both
\* matched, and the commit of create_match, failed or not, either changes
\* no sock row and no Match row or leaves both socks matched with the Match
\* row of the pair.
C6_AllOrNothing ==
    /\ [](\A i \in DOMAIN socks :
             socks[i].is_matched
             => \E m \in DOMAIN matches :
                   /\ i \in {matches[m].sock1_id, matches[m].sock2_id}
                   /\ \A j \in {matches[m].sock1_id, matches[m].sock2_id} :
                         j \in DOMAIN socks /\ socks[j].is_matched)
    /\ [][\A r \in Slots :
             Answers(r, "cm_commit")
             => \/ UNCHANGED <<socks, matches>>
                \/ /\ req[r].a \in DOMAIN socks' /\ socks'[req[r].a].is_matched
                   /\ req[r].b \in DOMAIN socks' /\ socks'[req[r].b].is_matched
                   /\ AddedFor(req[r].a, req[r].b) # {}]_vars

\* A create_match is about to commit for two socks that are both unmatched;
\* the INSERT of its transaction will fail after its two UPDATEs.
C6_Witness ==
    \E r \in Slots :
        /\ req[r].pc = "cm_commit"
        /\ Matchable(req[r].user, req[r].a, req[r].b)
        /\ Commit(DB, req[r].tx).err = "integrity"

\* The rows of the other socks, and every column of the two socks but
\* is_matched, are as before.
OnlyFlagsCleared(a, b) ==
    /\ DOMAIN socks' = DOMAIN socks
    /\ \A i \in DOMAIN socks :
          socks'[i] = IF i \in {a, b} THEN [socks[i] EXCEPT !.is_matched = FALSE]
                      ELSE socks[i]

\* C7: a delete_match with decouple = true that commits removes the Match
\* row, leaves both sock rows with is_matched = false and every other
\* column as it was, and deletes no file.
C7_DecoupleKeepsSocks ==
    [][\A r \in Slots :
          (/\ Answers(r, "dm_commit")
           /\ req[r].dec
           /\ Commit(DB, req[r].tx).err = "ok")
          => /\ req[r].m \notin DOMAIN matches'
             /\ req[r].a \in DOMAIN socks' /\ ~socks'[req[r].a].is_matched
             /\ req[r].b \in DOMAIN socks' /\ ~socks'[req[r].b].is_matched
             /\ OnlyFlagsCleared(req[r].a, req[r].b)
             /\ files' = files]_vars

\* The match of the initial database has been decoupled: its row is gone,
\* its socks are there, unmatched, with their files.
C7_Witness ==
    /\ DOMAIN matches = {}
    /\ \A i \in DOMAIN InitSocks :
          /\ i \in DOMAIN socks
          /\ socks[i] = [InitSocks[i] EXCEPT !.is_matched = FALSE]
          /\ socks[i].image_path \in files
    /\ NoBgPath(ImgPath(1)) \in files

\* The image files of a sock row.
FilesOf(row) ==
    {row.image_path}
    \cup (IF row.image_no_bg_path # NoPath THEN {row.image_no_bg_path} ELSE {})

\* C8: a delete_match with decouple = false that commits removes the Match
\* row, both sock rows, and every image file of both socks.
C8_DeleteRemovesFiles ==
    [][\A r \in Slots :
          (/\ Answers(r, "dm_commit")
           /\ ~req[r].dec
           /\ req[r].a \in DOMAIN socks /\ req[r].b \in DOMAIN socks
           /\ Commit(DB, req[r].tx).err = "ok")
          => /\ req[r].m \notin DOMAIN matches'
             /\ req[r].a \notin DOMAIN socks'
             /\ req[r].b \notin DOMAIN socks'
             /\ (FilesOf(socks[req[r].a]) \cup FilesOf(socks[req[r].b]))
                \cap files' = {}]_vars

\* C9: a delete_sock on a matched sock is answered 400 (403 to another
\* user) by the checks, and no such request gets past them: it ends where
\* it was taken, before any row or file is written.
C9_DeleteMatchedRejected ==
    /\ [](\A u \in Users, s \in DOMAIN socks :
             socks[s].is_matched
             => StatusOf(DeleteSockCheck(u, s)) \in {400, 403})
    /\ [][\A r \in Slots :
             Proceeds(r, "delete_sock") => ~socks[req'[r].a].is_matched]_vars

\* A matched sock, its partner, their Match row and their files are there
\* while the owner also has an unmatched sock that delete_sock accepts.
C9_Witness ==
    /\ \E m \in DOMAIN matches :
          /\ matches[m].sock1_id \in DOMAIN socks
          /\ socks[matches[m].sock1_id].is_matched
          /\ FilesOf(socks[matches[m].sock1_id]) \subseteq files
    /\ \E r \in Slots : req[r].pc = "ds_commit"

\* The ids, in the order search_by_sock_id returns them.
SearchIds(u, s) ==
    LET res == SearchResult(u, s, DefaultLimit)
    IN {res[j].sock_id : j \in 1 .. Len(res)}

\* The row an upload has committed and whose task has not run yet.
Unprocessed(t, i) ==
    /\ t.pc = "pending"
    /\ i \in DOMAIN socks
    /\ socks[i].image_path = t.file_path

\* C10: a background task exists only for an upload that has committed; a
\* commit that succeeds adds the row with its embedding, no
\* background-removed image and no palette, and registers the task in the
\* same step; and until the task
\* has run the sock, while unmatched, is in the result of every search of
\* its owner from another sock.
C10_PersistThenSchedule ==
    /\ [](\A t \in tasks, r \in Slots :
             req[r].pc = "up_commit" => t.file_path # ImgPath(req[r].k))
    /\ [][\A r \in Slots :
             (Answers(r, "up_commit") /\ (socks' # socks \/ tasks' # tasks))
             => \E i \in DOMAIN socks' :
                   /\ i \notin DOMAIN socks
                   /\ socks'[i].image_path = ImgPath(req[r].k)
                   /\ socks'[i].owner = req[r].user
                   /\ socks'[i].embedding \in Embeddings
                   /\ socks'[i].image_no_bg_path = NoPath
                   /\ socks'[i].color_palette = "null"
                   /\ tasks' = tasks \cup {NewTask(i, ImgPath(req[r].k))}]_vars
    /\ [](\A t \in tasks, i \in DOMAIN socks, q \in DOMAIN socks :
             (/\ Unprocessed(t, i)
              /\ ~socks[i].is_matched
              /\ q # i
              /\ socks[q].owner = socks[i].owner)
             => i \in SearchIds(socks[i].owner, q))

\* An uploaded sock whose task is pending is found by a search from
\* another sock of its owner.
C10_Witness ==
    \E t \in tasks, i \in DOMAIN socks, q \in DOMAIN socks :
        /\ Unprocessed(t, i)
        /\ q # i
        /\ socks[q].owner = socks[i].owner
        /\ i \in SearchIds(socks[i].owner, q)
        /\ socks[i].image_no_bg_path = NoPath
\* The sock rows that hold the file of upload k.
RowsOfUpload(table, k) == {i \in DOMAIN table : table[i].image_path = ImgPath(k)}

\* C11: when upload_sock fails after it wrote its file, that is when its
\* request ends without a sock row for the upload, the file it wrote is no
\* longer on disk.
C11_FailedUploadLeavesNothing ==
    [][\A r \in Slots :
          (Answers(r, "up_commit") /\ RowsOfUpload(socks', req[r].k) = {})
          => ImgPath(req[r].k) \notin files']_vars
\* The step in which the background task t raises before it has saved
\* anything: the task is over and no later stage of it is left.
TaskRaises(t) ==
    /\ t \in tasks
    /\ t.pc = "pending"
    /\ \A x \in tasks' : x.file_path # t.file_path

C13_SequenceUnique ==
    \A i, j \in DOMAIN socks :
        (i # j /\ socks[i].owner = socks[j].owner) => socks[i].seq # socks[j].seq
\* The sequence numbers the initial database has assigned to owner u.
AssignedAtInit(u) ==
    {InitSocks[i].seq : i \in {j \in DOMAIN InitSocks : InitSocks[j].owner = u}}

\* C14: a newly uploaded sock gets a user_sequence_id greater than every
\* number assigned to its owner before, whether or not the socks that had
\* those numbers still exist: here, greater than the numbers of the owner's
\* socks of the initial database.
C14_SequenceNeverReused ==
    [][\A r \in Slots :
          Answers(r, "up_commit")
          => \A i \in DOMAIN socks' \ DOMAIN socks :
                \A n \in AssignedAtInit(socks'[i].owner) : socks'[i].seq > n]_vars
\* C15: no step changes the embedding of an existing sock, nor its owner,
\* sequence number or image path: after creation only the
\* background-removed path, the palette and is_matched change.
C15_EmbeddingImmutable ==
    [][\A i \in DOMAIN socks \cap DOMAIN socks' :
          socks'[i] = [socks[i] EXCEPT
                          !.image_no_bg_path = socks'[i].image_no_bg_path,
                          !.color_palette = socks'[i].color_palette,
                          !.is_matched = socks'[i].is_matched]]_vars

\* An uploaded sock has been processed by its background task and an
\* initial sock has been unmatched: both carry the embedding they were
\* created with.
C15_Witness ==
    /\ \E i \in DOMAIN socks :
          /\ socks[i].image_path[2] > Cardinality(DOMAIN InitSocks)
          /\ socks[i].image_no_bg_path = NoBgPath(socks[i].image_path)
          /\ socks[i].embedding = EmbeddingOf(socks[i].image_path[2])
    /\ \E i \in DOMAIN InitSocks :
          /\ i \in DOMAIN socks
          /\ socks[i] = [InitSocks[i] EXCEPT !.is_matched = FALSE]
\* C16: a search by u from sock s is answered 404 when s has no row and 403
\* when s is another user's; otherwise every sock it returns exists, is
\* owned by u, is unmatched and is not s.
C16_SearchScoped ==
    \A u \in Users, s \in SockIds :
        /\ s \notin DOMAIN socks => StatusOf(SearchCheck(u, s)) = 404
        /\ (s \in DOMAIN socks /\ socks[s].owner # u)
              => StatusOf(SearchCheck(u, s)) = 403
        /\ SearchCheck(u, s) = "ok"
              => \A i \in SearchIds(u, s) :
                    /\ i \in DOMAIN socks
                    /\ socks[i].owner = u
                    /\ ~socks[i].is_matched
                    /\ i # s

\* A search that returns a sock while an unmatched sock of another user
\* exists.
C16_Witness ==
    \E u \in Users, s \in DOMAIN socks, i \in DOMAIN socks :
        /\ SearchCheck(u, s) = "ok"
        /\ SearchIds(u, s) # {}
        /\ socks[i].owner # u
        /\ ~socks[i].is_matched
\* Sock s exists and belongs to somebody other than u.
Foreign(u, s) == s \in DOMAIN socks /\ socks[s].owner # u

\* Match m exists, with its socks, and one of them is not u's.
ForeignMatch(u, m) ==
    /\ m \in DOMAIN matches
    /\ matches[m].sock1_id \in DOMAIN socks
    /\ matches[m].sock2_id \in DOMAIN socks
    /\ (Foreign(u, matches[m].sock1_id) \/ Foreign(u, matches[m].sock2_id))

\* C17: get_sock, search_by_sock_id and delete_sock on another user's sock,
\* get_match and delete_match on another user's match are answered 403 and
\* create_match naming another user's sock 403 or 404 by the checks; no
\* such request gets past the checks, so it ends where it was taken with
\* every row and file as before; and get_matches returns only matches
\* whose two socks are the caller's.
C17_CrossOwnerRejected ==
    /\ [](\A u \in Users :
             /\ \A s \in SockIds :
                   Foreign(u, s)
                   => /\ StatusOf(GetSockCheck(u, s)) = 403
                      /\ StatusOf(SearchCheck(u, s)) = 403
                      /\ StatusOf(DeleteSockCheck(u, s)) = 403
                      /\ \A b \in SockIds :
                            /\ StatusOf(CreateMatchCheck(u, s, b)) \in {403, 404}
                            /\ StatusOf(CreateMatchCheck(u, b, s)) \in {403, 404}
             /\ \A m \in MatchIds :
                   ForeignMatch(u, m)
                   => /\ StatusOf(GetMatchCheck(u, m)) = 403
                      /\ StatusOf(DeleteMatchCheck(u, m)) = 403
             /\ \A m \in GetMatches(u) :
                   /\ socks[matches[m].sock1_id].owner = u
                   /\ socks[matches[m].sock2_id].owner = u)
    /\ [][\A r \in Slots :
             /\ Proceeds(r, "delete_sock") => ~Foreign(req'[r].user, req'[r].a)
             /\ Proceeds(r, "delete_match") => ~ForeignMatch(req'[r].user, req'[r].m)
             /\ Proceeds(r, "create_match")
                   => /\ ~Foreign(req'[r].user, req'[r].a)
                      /\ ~Foreign(req'[r].user, req'[r].b)]_vars

\* Alice has a match, which get_matches returns to her and not to bob,
\* and bob has a sock of his own.
C17_Witness ==
    /\ GetMatches("alice") # {}
    /\ GetMatches("bob") = {}
    /\ \E m \in DOMAIN matches : ForeignMatch("bob", m)
    /\ \E s \in DOMAIN socks : Foreign("alice", s)
\* ret is what find_similar_socks returned on the given backend.
Found(backend) == ret.fn = "find_similar_socks" /\ ret.backend = backend

\* (cos + 1) / 2 in hundredths, for vectors of norm 5.
MappedCosine(v, w) == (4 * Dot(v, w) + 100) \div 2

\* The caller's unmatched socks whose mapped cosine to the query is at
\* least the threshold.
Eligible(qv, u, thr) ==
    {i \in DOMAIN socks :
        /\ socks[i].owner = u
        /\ ~socks[i].is_matched
        /\ MappedCosine(Vec(qv), Vec(socks[i].embedding)) >= thr}

\* C18: on a database that is not PostgreSQL find_similar_socks returns
\* min(limit, number of eligible socks) distinct socks, each one of the
\* owner's unmatched socks with (cos + 1) / 2 at least the threshold and
\* reported with that similarity, in descending order of similarity, and no
\* eligible sock left out is more similar than one returned.
C18_BruteForceExact ==
    Found("sqlite") =>
        LET v == ret.value
            e == Eligible(ret.qv, ret.user, ret.thr)
            sim(i) == MappedCosine(Vec(ret.qv), Vec(socks[i].embedding))
        IN /\ Len(v) = (IF Cardinality(e) < ret.limit THEN Cardinality(e)
                        ELSE ret.limit)
           /\ \A j \in 1 .. Len(v) :
                 /\ v[j].sock_id \in e
                 /\ v[j].similarity = sim(v[j].sock_id)
           /\ \A j, k \in 1 .. Len(v) :
                 /\ j # k => v[j].sock_id # v[k].sock_id
                 /\ j < k => v[j].similarity >= v[k].similarity
           /\ \A i \in e \ {v[j].sock_id : j \in 1 .. Len(v)} :
                 \A j \in 1 .. Len(v) : sim(i) <= v[j].similarity

\* A call that returned a sock and dropped another unmatched sock of the
\* owner for its similarity.
C18_Witness ==
    /\ Found("sqlite")
    /\ Len(ret.value) >= 1
    /\ \E i \in DOMAIN socks :
          /\ socks[i].owner = ret.user
          /\ ~socks[i].is_matched
          /\ i \notin Eligible(ret.qv, ret.user, ret.thr)
\* The mapped cosines of the socks of a result, in the order returned.
Ranking(qv, value) ==
    [j \in 1 .. Len(value) |->
        MappedCosine(Vec(qv), Vec(socks[value[j].sock_id].embedding))]

\* C19: for the same table, query, owner, threshold and limit the pgvector
\* branch returns what the brute-force branch returns: as many socks, and
\* at every rank a sock as similar to the query (socks that are equally
\* similar may come in either order).
C19_BackendsAgree ==
    Found("postgresql") =>
        Ranking(ret.qv, ret.value)
        = Ranking(ret.qv, FindSimilarBrute(ret.qv, ret.user, ret.limit, ret.thr))
\* ret is what calculate_similarity returned.
SimilarityReturned == ret.fn = "calculate_similarity"

\* C20: the score calculate_similarity returns for two non-zero vectors is
\* between 0 and 1 (0 and 100 hundredths), in EmbeddingService and in
\* CLIPEmbeddingService.
C20_SimilarityInUnitInterval ==
    SimilarityReturned => (0 <= ret.value /\ ret.value <= 100)
\* What the service that answered ret returns for the arguments a, b.
SimilarityOf(service, a, b) ==
    IF service = "EmbeddingService" THEN 4 * CalculateSimilarity(a, b)
    ELSE ClipCalculateSimilarity(a, b)

\* C21: calculate_similarity(a, b) = calculate_similarity(b, a), in both
\* services.
C21_SimilaritySymmetric ==
    SimilarityReturned => ret.value = SimilarityOf(ret.service, ret.e2, ret.e1)

\* A score between two different vectors of different norms that are
\* neither parallel nor opposite.
C21_Witness ==
    /\ SimilarityReturned
    /\ ret.e1 # ret.e2
    /\ Norm(Vec(ret.e1)) # Norm(Vec(ret.e2))
    /\ ret.value \notin {-100, 0, 100}

\* C22: extract_color_palette returns at most 5 colours, and no two of the
\* returned colours are closer than 30 in RGB.
C22_PaletteDistinct ==
    ret.fn = "extract_color_palette"
    => /\ Len(ret.out.value) <= NumColors
       /\ \A i, j \in DOMAIN ret.out.value :
             i # j => Distance2(ret.out.value[i], ret.out.value[j])
                         >= MinDistance * MinDistance

\* C23: extract_features and extract_color_palette never raise; a failing
\* step gives the default of its feature (pattern "unknown", empty palette,
\* empty texture descriptor, all defaults when the image cannot be loaded),
\* and the texture descriptor has its four values or none.
C23_FeaturesNeverRaise ==
    /\ ret.fn = "extract_color_palette"
       => /\ ~ret.out.raised
          /\ ret.fault => ret.out.value = << >>
    /\ ret.fn = "extract_features"
       => /\ ~ret.out.raised
          /\ ret.faults \cap OuterSteps # {}
             => ret.out.value = [dominant_color |-> "None",
                                 pattern_type |-> "unknown",
                                 texture_features |-> <<"{", "}">>]
          /\ "pattern" \in ret.faults => ret.out.value.pattern_type = "unknown"
          /\ ret.faults \cap TextureSteps # {}
             => ret.out.value.texture_features = <<"{", "}">>
          /\ ret.out.value.texture_features
                \in {<<"{", "}">>,
                     <<"{", "mean_intensity", "std_intensity", "mean_gradient",
                       "lbp_histogram", "}">>}

\* The last texture value fails after the first three were computed, and
\* the pattern detection fails too, in an image that loads.
C23_Witness ==
    /\ ret.fn = "extract_features"
    /\ ret.faults = {"lbp_histogram", "pattern"}
    /\ ret.out.value.dominant_color = "hex"

\* C24: however many threads make the first calls of get_embedding_service
\* together, one EmbeddingService is constructed and every caller is
\* returned that one.
C24_OneService ==
    /\ Cardinality({t \in Callers : calls[t].obj # 0}) <= 1
    /\ \A t, u \in Callers :
          (calls[t].got # 0 /\ calls[u].got # 0) => calls[t].got = calls[u].got

\* C25: no two users have one email, and a register request for an email
\* that is registered creates no user: it is not taken past the check,
\* and when the email was registered after the check the commit adds no
\* row.
C25_OneUserPerEmail ==
    /\ [](\A i, j \in DOMAIN users : users[i].email = users[j].email => i = j)
    /\ [][\A r \in Slots :
             /\ Proceeds(r, "register") => ~EmailRegistered(req'[r].user)
             /\ (Answers(r, "rg_commit") /\ EmailRegistered(req[r].user))
                => users' = users]_vars

\* A request that passed the check and has not committed, while another
\* request has registered its email.
C25_Witness ==
    \E r \in Slots : req[r].pc = "rg_commit" /\ EmailRegistered(req[r].user)

\* list_unmatched_socks, is_processing_complete: the background-removed
\* path and the palette are both set.
Complete(table, i) ==
    table[i].image_no_bg_path # NoPath /\ table[i].color_palette # "null"

\* The task of the sock in row i that is about to write its result.
OwnTask(t, i) ==
    /\ t.pc = "saved"
    /\ t.sock_id = i
    /\ t.file_path = socks[i].image_path

\* C26: a new sock row is not processing-complete; a row that is complete
\* stays complete; a row becomes complete only in the step in which the
\* background task of its own upload ends; and a row without a task (it
\* failed, or never ran) stays incomplete.
C26_ProcessingMonotone ==
    [][/\ \A i \in DOMAIN socks' \ DOMAIN socks : ~Complete(socks', i)
       /\ \A i \in DOMAIN socks \cap DOMAIN socks' :
             /\ Complete(socks, i) => Complete(socks', i)
             /\ (~Complete(socks, i) /\ Complete(socks', i))
                => \E t \in tasks : OwnTask(t, i) /\ t \notin tasks'
             /\ (~Complete(socks, i) /\ \A t \in tasks : t.file_path # socks[i].image_path)
                => ~Complete(socks', i)]_vars

\* C27: no Match row references a sock row that does not exist, whatever
\* the order in which a delete_sock and a create_match on one sock read
\* and commit.
C27_NoDanglingMatch ==
    \A m \in DOMAIN matches :
        {matches[m].sock1_id, matches[m].sock2_id} \subseteq DOMAIN socks

\* A create_match has passed its checks and has not committed, and one of
\* its two socks has been deleted in the meantime while the other is
\* there: by a delete_sock, since delete_match deletes both socks of a
\* match.
C27_Witness ==
    \E q \in Slots :
        /\ req[q].pc = "cm_commit"
        /\ {req[q].a, req[q].b} \ DOMAIN socks # {}
        /\ {req[q].a, req[q].b} \cap DOMAIN socks # {}
        /\ matches = << >>

\* C28: a sock with is_matched = true is referenced by an existing Match
\* row.
C28_MatchedHasMatch ==
    \A i \in DOMAIN socks :
        socks[i].is_matched
        => \E m \in DOMAIN matches : i \in {matches[m].sock1_id, matches[m].sock2_id}

\* A matched sock whose Match row a delete_match with decouple is about to
\* delete.
C28_Witness ==
    \E r \in Slots, i \in DOMAIN socks :
        /\ req[r].pc = "dm_commit"
        /\ req[r].dec
        /\ req[r].m \in DOMAIN matches
        /\ socks[i].is_matched
        /\ i \in {matches[req[r].m].sock1_id, matches[req[r].m].sock2_id}

\* The step in which the task t ends after the row of its sock was
\* deleted.
EndsAfterDelete(t) ==
    /\ t \in tasks
    /\ RowsOfUpload(socks, t.file_path[2]) = {}
    /\ \A x \in tasks' : x.file_path # t.file_path

\* C29: when the background task of a deleted sock ends, it has changed no
\* sock row and its background-removed image is not on disk.
C29_StaleTaskLeavesNothing ==
    [][\A t \in tasks :
          EndsAfterDelete(t)
          => /\ socks' = socks
             /\ NoBgPath(t.file_path) \notin files']_vars

\* C30: in the table of routers/socks.py a sock is matched exactly when
\* its matched_with_id names another existing sock whose matched_with_id
\* names it back, and the deletion of a matched sock leaves its partner
\* unmatched with matched_with_id null.
C30_PairingSymmetric ==
    /\ [](\A i \in DOMAIN legacy :
             legacy[i].is_matched
             <=> /\ legacy[i].matched_with_id # 0
                 /\ legacy[i].matched_with_id # i
                 /\ legacy[i].matched_with_id \in DOMAIN legacy
                 /\ legacy[legacy[i].matched_with_id].matched_with_id = i)
    /\ [][\A i \in DOMAIN legacy \ DOMAIN legacy' :
             (legacy[i].is_matched /\ legacy[i].matched_with_id \in DOMAIN legacy')
             => /\ ~legacy'[legacy[i].matched_with_id].is_matched
                /\ legacy'[legacy[i].matched_with_id].matched_with_id = 0]_vars

====
